---- MODULE Spec2Model ----
(***************************************************************************)
(* Model of the constant-product AMM arithmetic of src/src/amm.rs.         *)
(*                                                                         *)
(* The five functions are pure; each is an operator computed step by step  *)
(* as the code computes it: widen to U256, checked multiply, checked       *)
(* divide, fallible narrowing to Balance, checked add of FIXED_ROUND_UP.   *)
(* Balance (u128) and U256 are scaled to BalanceBits and 2 * BalanceBits   *)
(* bits, which keeps the 1:2 width ratio of the code, so that every        *)
(* overflow path of the code exists in the model at the same place.        *)
(*                                                                         *)
(* A behaviour is one call: Init draws the four Balance inputs, one of the *)
(* five call actions applies its function to them and records the result.  *)
(***************************************************************************)
EXTENDS Integers, Naturals, Sequences, FiniteSets, TLC

\* Width of Balance in bits (u128 in the code, scaled down).
BalanceBits == 3

\* Width of the U256 scratch type: twice the width of Balance, as 256 = 2 * 128.
WideBits == 2 * BalanceBits

RECURSIVE Pow2(_)
Pow2(n) == IF n = 0 THEN 1 ELSE 2 * Pow2(n - 1)

\* u128::MAX
BalanceMax == Pow2(BalanceBits) - 1

\* U256::MAX
WideMax == Pow2(WideBits) - 1

\* type Balance = u128
Balance == 0 .. BalanceMax

\* const FIXED_ROUND_UP: Balance = 1
FIXED_ROUND_UP == 1

\* enum MathError
ZeroInReserve == "ZeroInReserve"
Overflow == "Overflow"
InsufficientOutReserve == "InsufficientOutReserve"

\* Result<_, MathError>
Ok(v) == [tag |-> "Ok", val |-> v]
Err(e) == [tag |-> "Err", err |-> e]

\* Option<_>
Some(v) == [tag |-> "Some", val |-> v]
None == [tag |-> "None"]

IsOk(r) == r.tag = "Ok"
IsErr(r, e) == r.tag = "Err" /\ r.err = e
IsNone(o) == o.tag = "None"

\* U256::from(x): widening conversion of a Balance, value preserving.
to_u256(x) == x % (WideMax + 1)

\* U256::checked_mul / checked_add / checked_sub / checked_div
checked_mul(a, b) == IF a * b > WideMax THEN None ELSE Some(a * b)
checked_add(a, b) == IF a + b > WideMax THEN None ELSE Some(a + b)
checked_sub(a, b) == IF a < b THEN None ELSE Some(a - b)
checked_div(a, b) == IF b = 0 THEN None ELSE Some(a \div b)

\* Mutant of to_balance: narrowing that wraps modulo 2^BalanceBits.
to_balance_wrapping(x) == Ok(x % (BalanceMax + 1))

\* to_balance!: Balance::try_from(x).map_err(|_| Overflow)
to_balance(x) == IF x > BalanceMax THEN Err(Overflow) ELSE Ok(x)

\* round_up!: e.checked_add(FIXED_ROUND_UP).ok_or(Overflow), on a Balance
round_up(e) ==
    IF e + FIXED_ROUND_UP > BalanceMax THEN Err(Overflow) ELSE Ok(e + FIXED_ROUND_UP)

\* Mutant of calculate_spot_price: the zero short-circuit placed before the
\* in_reserve guard.
calculate_spot_price_shortcut_first(in_reserve, out_reserve, amount) ==
    IF amount = 0 \/ out_reserve = 0 THEN to_balance(0)
    ELSE IF in_reserve = 0 THEN Err(ZeroInReserve)
    ELSE to_balance((to_u256(out_reserve) * to_u256(amount)) \div to_u256(in_reserve))

calculate_spot_price(in_reserve, out_reserve, amount) ==
    IF ~(in_reserve # 0) THEN Err(ZeroInReserve)
    ELSE IF amount = 0 \/ out_reserve = 0 THEN to_balance(0)
    ELSE
      LET amount_hp == to_u256(amount)
          out_reserve_hp == to_u256(out_reserve)
          in_reserve_hp == to_u256(in_reserve)
          product == checked_mul(out_reserve_hp, amount_hp)
      IN  IF IsNone(product) THEN Err(Overflow)
          ELSE LET spot_price_hp == checked_div(product.val, in_reserve_hp)
               IN  IF IsNone(spot_price_hp) THEN Err(Overflow)
                   ELSE to_balance(spot_price_hp.val)

\* Mutant of calculate_out_given_in: the final round_up! left out.
calculate_out_given_in_no_round(in_reserve, out_reserve, amount_in) ==
    IF in_reserve + amount_in = 0 THEN Err(ZeroInReserve)
    ELSE to_balance((to_u256(out_reserve) * to_u256(amount_in))
                        \div (to_u256(in_reserve) + to_u256(amount_in)))

calculate_out_given_in(in_reserve, out_reserve, amount_in) ==
    LET in_reserve_hp == to_u256(in_reserve)
        out_reserve_hp == to_u256(out_reserve)
        amount_in_hp == to_u256(amount_in)
        denominator == checked_add(in_reserve_hp, amount_in_hp)
    IN  IF IsNone(denominator) THEN Err(Overflow)
        ELSE IF denominator.val = 0 THEN Err(ZeroInReserve)
        ELSE
          LET numerator == checked_mul(out_reserve_hp, amount_in_hp)
          IN  IF IsNone(numerator) THEN Err(Overflow)
              ELSE
                LET sale_price_hp == checked_div(numerator.val, denominator.val)
                IN  IF IsNone(sale_price_hp) THEN Err(Overflow)
                    ELSE LET result == to_balance(sale_price_hp.val)
                         IN  IF ~IsOk(result) THEN Err(Overflow)
                             ELSE round_up(result.val)

\* Mutant of calculate_in_given_out: the reserve guard written with < for <=.
calculate_in_given_out_strict_guard(out_reserve, in_reserve, amount_out) ==
    IF ~(amount_out < out_reserve) THEN Err(InsufficientOutReserve)
    ELSE LET result == to_balance((to_u256(in_reserve) * to_u256(amount_out))
                          \div (to_u256(out_reserve) - to_u256(amount_out)))
         IN  IF ~IsOk(result) THEN Err(Overflow) ELSE round_up(result.val)

\* Mutant of calculate_in_given_out: the final round_up! left out.
calculate_in_given_out_no_round(out_reserve, in_reserve, amount_out) ==
    IF ~(amount_out <= out_reserve) THEN Err(InsufficientOutReserve)
    ELSE IF out_reserve = amount_out THEN Err(ZeroInReserve)
    ELSE to_balance((to_u256(in_reserve) * to_u256(amount_out))
                        \div (to_u256(out_reserve) - to_u256(amount_out)))

calculate_in_given_out(out_reserve, in_reserve, amount_out) ==
    IF ~(amount_out <= out_reserve) THEN Err(InsufficientOutReserve)
    ELSE
      LET out_reserve_hp == to_u256(out_reserve)
          in_reserve_hp == to_u256(in_reserve)
          amount_out_hp == to_u256(amount_out)
          numerator == checked_mul(in_reserve_hp, amount_out_hp)
      IN  IF IsNone(numerator) THEN Err(Overflow)
          ELSE
            LET denominator == checked_sub(out_reserve_hp, amount_out_hp)
            IN  IF IsNone(denominator) THEN Err(Overflow)
                ELSE IF denominator.val = 0 THEN Err(ZeroInReserve)
                ELSE
                  LET buy_price_hp == checked_div(numerator.val, denominator.val)
                  IN  IF IsNone(buy_price_hp) THEN Err(Overflow)
                      ELSE LET result == to_balance(buy_price_hp.val)
                           IN  IF ~IsOk(result) THEN Err(Overflow)
                               ELSE round_up(result.val)

\* Mutant of calculate_liquidity_in: the result rounded up like the swaps.
calculate_liquidity_in_round_up(asset_a_reserve, asset_b_reserve, amount) ==
    IF ~(asset_a_reserve # 0) THEN Err(ZeroInReserve)
    ELSE LET result == to_balance((to_u256(amount) * to_u256(asset_b_reserve))
                          \div to_u256(asset_a_reserve))
         IN  IF ~IsOk(result) THEN Err(Overflow) ELSE round_up(result.val)

calculate_liquidity_in(asset_a_reserve, asset_b_reserve, amount) ==
    IF ~(asset_a_reserve # 0) THEN Err(ZeroInReserve)
    ELSE
      LET a_reserve_hp == to_u256(asset_a_reserve)
          b_reserve_hp == to_u256(asset_b_reserve)
          amount_hp == to_u256(amount)
          product == checked_mul(amount_hp, b_reserve_hp)
      IN  IF IsNone(product) THEN Err(Overflow)
          ELSE LET b_required_hp == checked_div(product.val, a_reserve_hp)
               IN  IF IsNone(b_required_hp) THEN Err(Overflow)
                   ELSE to_balance(b_required_hp.val)

\* Mutant of calculate_liquidity_out: both quotients rounded up (ceiling).
calculate_liquidity_out_ceil(asset_a_reserve, asset_b_reserve, amount, total_liquidity) ==
    IF ~(total_liquidity # 0) THEN Err(ZeroInReserve)
    ELSE
      LET remove_amount_a == to_balance(
              (to_u256(amount) * to_u256(asset_a_reserve) + to_u256(total_liquidity) - 1)
                  \div to_u256(total_liquidity))
          remove_amount_b == to_balance(
              (to_u256(asset_b_reserve) * to_u256(amount) + to_u256(total_liquidity) - 1)
                  \div to_u256(total_liquidity))
      IN  IF ~IsOk(remove_amount_a) THEN remove_amount_a
          ELSE IF ~IsOk(remove_amount_b) THEN remove_amount_b
          ELSE Ok(<<remove_amount_a.val, remove_amount_b.val>>)

\* Mutant of calculate_liquidity_out: a failure of the second narrowing is
\* swallowed and a partial pair is returned.
calculate_liquidity_out_partial(asset_a_reserve, asset_b_reserve, amount, total_liquidity) ==
    IF ~(total_liquidity # 0) THEN Err(ZeroInReserve)
    ELSE
      LET remove_amount_a == to_balance(
              (to_u256(amount) * to_u256(asset_a_reserve)) \div to_u256(total_liquidity))
          remove_amount_b == to_balance(
              (to_u256(asset_b_reserve) * to_u256(amount)) \div to_u256(total_liquidity))
      IN  IF ~IsOk(remove_amount_a) THEN remove_amount_a
          ELSE IF ~IsOk(remove_amount_b) THEN Ok(<<remove_amount_a.val, 0>>)
          ELSE Ok(<<remove_amount_a.val, remove_amount_b.val>>)

\* Mutant of calculate_liquidity_out: the second ratio taken of asset a's
\* reserve instead of asset b's.
calculate_liquidity_out_wrong_reserve(asset_a_reserve, asset_b_reserve, amount, total_liquidity) ==
    IF ~(total_liquidity # 0) THEN Err(ZeroInReserve)
    ELSE
      LET remove_amount_a == to_balance(
              (to_u256(amount) * to_u256(asset_a_reserve)) \div to_u256(total_liquidity))
      IN  IF ~IsOk(remove_amount_a) THEN remove_amount_a
          ELSE Ok(<<remove_amount_a.val, remove_amount_a.val>>)

calculate_liquidity_out(asset_a_reserve, asset_b_reserve, amount, total_liquidity) ==
    IF ~(total_liquidity # 0) THEN Err(ZeroInReserve)
    ELSE
      LET a_reserve_hp == to_u256(asset_a_reserve)
          b_reserve_hp == to_u256(asset_b_reserve)
          amount_hp == to_u256(amount)
          liquidity_hp == to_u256(total_liquidity)
          product_a == checked_mul(amount_hp, a_reserve_hp)
      IN  IF IsNone(product_a) THEN Err(Overflow)
          ELSE
            LET remove_amount_a_hp == checked_div(product_a.val, liquidity_hp)
            IN  IF IsNone(remove_amount_a_hp) THEN Err(Overflow)
                ELSE
                  LET remove_amount_a == to_balance(remove_amount_a_hp.val)
                  IN  IF ~IsOk(remove_amount_a) THEN remove_amount_a
                      ELSE
                        LET product_b == checked_mul(b_reserve_hp, amount_hp)
                        IN  IF IsNone(product_b) THEN Err(Overflow)
                            ELSE
                              LET remove_amount_b_hp == checked_div(product_b.val, liquidity_hp)
                              IN  IF IsNone(remove_amount_b_hp) THEN Err(Overflow)
                                  ELSE
                                    LET remove_amount_b == to_balance(remove_amount_b_hp.val)
                                    IN  IF ~IsOk(remove_amount_b) THEN remove_amount_b
                                        ELSE Ok(<<remove_amount_a.val, remove_amount_b.val>>)

(***************************************************************************)
(* State: the inputs of the call, the function called, and what it         *)
(* returned.                                                               *)
(***************************************************************************)
VARIABLES input, called, result

vars == <<input, called, result>>

Pending == [tag |-> "Pending"]

Init ==
    /\ input \in Balance \X Balance \X Balance \X Balance
    /\ called = "none"
    /\ result = Pending

Call_calculate_spot_price ==
    /\ called = "none"
    /\ called' = "calculate_spot_price"
    /\ result' = calculate_spot_price(input[1], input[2], input[3])
    /\ UNCHANGED input

Call_calculate_out_given_in ==
    /\ called = "none"
    /\ called' = "calculate_out_given_in"
    /\ result' = calculate_out_given_in(input[1], input[2], input[3])
    /\ UNCHANGED input

Call_calculate_in_given_out ==
    /\ called = "none"
    /\ called' = "calculate_in_given_out"
    /\ result' = calculate_in_given_out(input[1], input[2], input[3])
    /\ UNCHANGED input

Call_calculate_liquidity_in ==
    /\ called = "none"
    /\ called' = "calculate_liquidity_in"
    /\ result' = calculate_liquidity_in(input[1], input[2], input[3])
    /\ UNCHANGED input

Call_calculate_liquidity_out ==
    /\ called = "none"
    /\ called' = "calculate_liquidity_out"
    /\ result' = calculate_liquidity_out(input[1], input[2], input[3], input[4])
    /\ UNCHANGED input

Next ==
    \/ Call_calculate_spot_price
    \/ Call_calculate_out_given_in
    \/ Call_calculate_in_given_out
    \/ Call_calculate_liquidity_in
    \/ Call_calculate_liquidity_out

Spec == Init /\ [][Next]_vars

(***************************************************************************)
(* The exact quotients of the documented formulas, over unbounded          *)
(* integers; the properties compare the recorded results against them.     *)
(***************************************************************************)
Floor(n, d) == n \div d

\* C1: whenever the zero-reserve / insufficient-reserve guards pass and the
\* true mathematical result (the truncated quotient, plus 1 for the two swap
\* functions, either component for calculate_liquidity_out) exceeds the
\* maximum Balance, the call returns Err(Overflow); an Ok result is never a
\* wrapped or truncated value.
C1_OverflowNeverWraps ==
    /\ (/\ called = "calculate_spot_price"
        /\ input[1] # 0
        /\ Floor(input[2] * input[3], input[1]) > BalanceMax)
           => IsErr(result, Overflow)
    /\ (/\ called = "calculate_out_given_in"
        /\ input[1] + input[3] # 0
        /\ Floor(input[2] * input[3], input[1] + input[3]) + 1 > BalanceMax)
           => IsErr(result, Overflow)
    /\ (/\ called = "calculate_in_given_out"
        /\ input[3] < input[1]
        /\ Floor(input[2] * input[3], input[1] - input[3]) + 1 > BalanceMax)
           => IsErr(result, Overflow)
    /\ (/\ called = "calculate_liquidity_in"
        /\ input[1] # 0
        /\ Floor(input[3] * input[2], input[1]) > BalanceMax)
           => IsErr(result, Overflow)
    /\ (/\ called = "calculate_liquidity_out"
        /\ input[4] # 0
        /\ \/ Floor(input[3] * input[1], input[4]) > BalanceMax
           \/ Floor(input[3] * input[2], input[4]) > BalanceMax)
           => IsErr(result, Overflow)

\* Witness of C1: calculate_spot_price(1, max, max) has been called, its
\* exact quotient exceeds the maximum Balance, and it returned Overflow.
C1_Witness ==
    /\ called = "calculate_spot_price"
    /\ input[1] = 1 /\ input[2] = BalanceMax /\ input[3] = BalanceMax
    /\ Floor(input[2] * input[3], input[1]) > BalanceMax
    /\ IsErr(result, Overflow)

\* C2: with in_reserve + amount_in > 0 and
\* floor(out_reserve * amount_in / (in_reserve + amount_in)) + 1 within the
\* maximum Balance, calculate_out_given_in returns Ok of exactly that value,
\* never less (Ok(1) even when out_reserve = 0 or amount_in = 0).
C2_OutGivenInIsFloorPlusOne ==
    (/\ called = "calculate_out_given_in"
     /\ input[1] + input[3] > 0
     /\ Floor(input[2] * input[3], input[1] + input[3]) + 1 <= BalanceMax)
        => /\ IsOk(result)
           /\ result.val = Floor(input[2] * input[3], input[1] + input[3]) + 1

\* Witness of C2: calculate_out_given_in was called with a non-zero exact
\* quotient that does not divide evenly, and returned the quotient plus one.
C2_Witness ==
    /\ called = "calculate_out_given_in"
    /\ input[1] = 2 /\ input[2] = 5 /\ input[3] = 1
    /\ IsOk(result)
    /\ result.val = 2

\* C3: whenever calculate_out_given_in returns Ok(r), the trader receives no
\* more than the exact formula value:
\* r * (in_reserve + amount_in) <= out_reserve * amount_in.
C3_OutGivenInFavoursPool ==
    (called = "calculate_out_given_in" /\ IsOk(result))
        => result.val * (input[1] + input[3]) <= input[2] * input[3]

\* C4: calculate_in_given_out returns Err(InsufficientOutReserve) whenever
\* amount_out > out_reserve and Err(ZeroInReserve) whenever
\* amount_out = out_reserve, whatever in_reserve is.
C4_InGivenOutGuards ==
    called = "calculate_in_given_out"
        => /\ input[3] > input[1] => IsErr(result, InsufficientOutReserve)
           /\ input[3] = input[1] => IsErr(result, ZeroInReserve)

\* Witness of C4: the pool is drained exactly (amount_out = out_reserve) with
\* the largest in_reserve and amount_out, and the call returned ZeroInReserve.
C4_Witness ==
    /\ called = "calculate_in_given_out"
    /\ input[1] = BalanceMax /\ input[2] = BalanceMax /\ input[3] = BalanceMax
    /\ IsErr(result, ZeroInReserve)

\* C5: with amount_out < out_reserve and
\* floor(in_reserve * amount_out / (out_reserve - amount_out)) + 1 within the
\* maximum Balance, calculate_in_given_out returns Ok(r) with r that value,
\* and the trader pays strictly more than the exact formula:
\* r * (out_reserve - amount_out) > in_reserve * amount_out.
C5_InGivenOutIsFloorPlusOne ==
    (/\ called = "calculate_in_given_out"
     /\ input[3] < input[1]
     /\ Floor(input[2] * input[3], input[1] - input[3]) + 1 <= BalanceMax)
        => /\ IsOk(result)
           /\ result.val = Floor(input[2] * input[3], input[1] - input[3]) + 1
           /\ result.val * (input[1] - input[3]) > input[2] * input[3]

\* Witness of C5: calculate_in_given_out was called where the exact quotient
\* divides evenly (4 * 3 / (5 - 3) = 6) and returned one more than it.
C5_Witness ==
    /\ called = "calculate_in_given_out"
    /\ input[1] = 5 /\ input[2] = 4 /\ input[3] = 3
    /\ IsOk(result)
    /\ result.val = 7

\* C6: calculate_spot_price checks in_reserve first: with in_reserve = 0 it
\* returns Err(ZeroInReserve) for every out_reserve and amount, and with
\* in_reserve > 0 it returns Ok(0) whenever amount = 0 or out_reserve = 0.
C6_SpotPriceGuardFirst ==
    called = "calculate_spot_price"
        => /\ input[1] = 0 => IsErr(result, ZeroInReserve)
           /\ (input[1] > 0 /\ (input[3] = 0 \/ input[2] = 0))
                 => (IsOk(result) /\ result.val = 0)

\* Witness of C6: calculate_spot_price was called with in_reserve = 0 and
\* amount = 0, where the short-circuit would apply, and returned
\* ZeroInReserve.
C6_Witness ==
    /\ called = "calculate_spot_price"
    /\ input[1] = 0 /\ input[3] = 0
    /\ IsErr(result, ZeroInReserve)

\* C7: with r_a > 0 and floor(r_b * x / r_a) within the maximum Balance,
\* calculate_spot_price(r_a, r_b, x) and calculate_liquidity_in(r_a, r_b, x)
\* both return Ok(floor(r_b * x / r_a)) with no rounding adjustment, and the
\* two functions return the same result (Ok value or error kind) on every
\* input.
C7_SpotPriceEqualsLiquidityIn ==
    /\ called = "calculate_spot_price"
          => /\ (input[1] > 0 /\ Floor(input[2] * input[3], input[1]) <= BalanceMax)
                   => (IsOk(result) /\ result.val = Floor(input[2] * input[3], input[1]))
             /\ result = calculate_liquidity_in(input[1], input[2], input[3])
    /\ called = "calculate_liquidity_in"
          => /\ (input[1] > 0 /\ Floor(input[2] * input[3], input[1]) <= BalanceMax)
                   => (IsOk(result) /\ result.val = Floor(input[2] * input[3], input[1]))
             /\ result = calculate_spot_price(input[1], input[2], input[3])

\* Witness of C7: calculate_liquidity_in was called where the exact quotient
\* 5 * 3 / 4 is not an integer, and returned it truncated.
C7_Witness ==
    /\ called = "calculate_liquidity_in"
    /\ input[1] = 4 /\ input[2] = 5 /\ input[3] = 3
    /\ IsOk(result)
    /\ result.val = 3

\* The result of calculate_liquidity_out for twice the amount of the call
\* that was made.
DoubledAmountResult ==
    calculate_liquidity_out(input[1], input[2], 2 * input[3], input[4])

\* C8: calculate_liquidity_out is linear in amount: when the call with amount
\* x returned Ok((p, q)) and the call with 2x (a Balance) returns
\* Ok((p2, q2)), then 0 <= p2 - 2p <= 1 and 0 <= q2 - 2q <= 1.
C8_LiquidityOutLinear ==
    (/\ called = "calculate_liquidity_out"
     /\ input[4] > 0
     /\ 2 * input[3] <= BalanceMax
     /\ IsOk(result)
     /\ IsOk(DoubledAmountResult))
        => /\ 0 <= DoubledAmountResult.val[1] - 2 * result.val[1]
           /\ DoubledAmountResult.val[1] - 2 * result.val[1] <= 1
           /\ 0 <= DoubledAmountResult.val[2] - 2 * result.val[2]
           /\ DoubledAmountResult.val[2] - 2 * result.val[2] <= 1

\* Witness of C8: a call succeeded whose doubled call succeeds too, with
\* non-zero components, one deviating by exactly one unit and one by none.
C8_Witness ==
    /\ called = "calculate_liquidity_out"
    /\ input[4] > 0
    /\ input[3] > 0
    /\ 2 * input[3] <= BalanceMax
    /\ IsOk(result)
    /\ IsOk(DoubledAmountResult)
    /\ result.val[1] > 0
    /\ result.val[2] > 0
    /\ DoubledAmountResult.val[1] = 2 * result.val[1] + 1
    /\ DoubledAmountResult.val[2] = 2 * result.val[2]

\* C9: calculate_liquidity_out is all-or-nothing: with total_liquidity > 0 it
\* returns Ok of the pair of truncated quotients exactly when both fit in a
\* Balance; if either one does not fit the whole call returns Err(Overflow);
\* with total_liquidity = 0 it returns Err(ZeroInReserve).
C9_LiquidityOutAllOrNothing ==
    called = "calculate_liquidity_out"
        => /\ input[4] = 0 => IsErr(result, ZeroInReserve)
           /\ input[4] > 0 =>
                IF /\ Floor(input[3] * input[1], input[4]) <= BalanceMax
                   /\ Floor(input[3] * input[2], input[4]) <= BalanceMax
                THEN /\ IsOk(result)
                     /\ result.val = << Floor(input[3] * input[1], input[4]),
                                        Floor(input[3] * input[2], input[4]) >>
                ELSE IsErr(result, Overflow)

\* Witness of C9: the first quotient fits and is non-zero, the second does not
\* fit, and the call returned Overflow.
C9_Witness ==
    /\ called = "calculate_liquidity_out"
    /\ input[4] > 0
    /\ Floor(input[3] * input[1], input[4]) > 0
    /\ Floor(input[3] * input[1], input[4]) <= BalanceMax
    /\ Floor(input[3] * input[2], input[4]) > BalanceMax
    /\ IsErr(result, Overflow)

\* C10: with total_liquidity > 0 and amount <= total_liquidity,
\* calculate_liquidity_out never fails, and the returned pair (p, q) exceeds
\* neither the reserves nor the exact proportional share.
C10_LiquidityOutWithinReserves ==
    (/\ called = "calculate_liquidity_out"
     /\ input[4] > 0
     /\ input[3] <= input[4])
        => /\ IsOk(result)
           /\ result.val[1] <= input[1]
           /\ result.val[2] <= input[2]
           /\ result.val[1] * input[4] <= input[3] * input[1]
           /\ result.val[2] * input[4] <= input[3] * input[2]

\* Witness of C10: a partial withdrawal from the largest reserves, rounded
\* down strictly below the exact share of asset b.
C10_Witness ==
    /\ called = "calculate_liquidity_out"
    /\ input[1] = BalanceMax
    /\ input[2] = BalanceMax - 1
    /\ input[4] = BalanceMax
    /\ input[3] = BalanceMax - 1
    /\ IsOk(result)
    /\ result.val[2] * input[4] < input[3] * input[2]

====
